---- MODULE Spec2Model ----
(***************************************************************************)
(* hipBLASLt ExtOp library builder (ExtOpCreateLibrary.py) and reducer     *)
(* (ExtOpMergeLibrary.py): processes that read, merge and publish a        *)
(* library file in a shared output directory.                              *)
(*                                                                         *)
(* A file system is a map from paths to inodes and a map from inodes to    *)
(* contents; a content is a sequence of blocks, one block per OS write.    *)
(* An open handle refers to an inode, not to a path.                       *)
(***************************************************************************)
EXTENDS Integers, Sequences, FiniteSets, TLC

\* ------------------------------------------------------------------ bounds
\* Process ids os.getpid() can return (they coincide only across hosts or
\* pid namespaces that share the output directory).
MaxPid == 2
\* Values of int(time.time() * 1000) the publishers can observe.
MaxMillis == 2
MaxRuns == 2

\* ------------------------------------------------------- program constants
\* _retry_read(..., tries=30, ...)
ReadTries == 30
\* for i in range(120) in _atomic_dump
ReplaceTries == 120
\* errno.EACCES, errno.EBUSY
EACCES == 13
EBUSY == 16
\* base=0.02 of _retry_read and the 0.05 of the replace loop, in milliseconds
ReadBaseMs == 20
ReplaceBaseMs == 50
\* 2 ** min(i, 8): the exponent stops growing at 8
BackoffCap == 8
\* random.random() * 0.01 is below 10 ms
JitterMs == 10
\* "no such attribute value": the winerror of an OSError built from two
\* arguments is None, the errno of a non-OSError is absent
NoCode == 0 - 1

Builders == {"b1", "b2"}
Pids == 1..MaxPid
Millis == 1..MaxMillis
Archs == {"gfx90a", "gfx942"}
\* the order in which Encode lays the top-level keys out
ArchOrder == <<"gfx90a", "gfx942">>

\* ------------------------------------------------------------ data values
\* A mapping (dict) is a function over strings; a list is tagged so that an
\* empty list and an empty mapping stay different values.
EmptyDict == [k \in {} |-> 0]
List(s) == [tag |-> "list", items |-> s]
\* a value that is neither a mapping nor a list (a string, a number)
Scalar(x) == [tag |-> "scalar", items |-> <<x>>]
\* the TypeError a call raised, in place of its result
TypeErr == [tag |-> "TypeError", items |-> <<>>]
IsList(v) == DOMAIN v = {"tag", "items"} /\ v.tag = "list"
\* isinstance(v, dict)
IsDict(v) == DOMAIN v # {"tag", "items"}
IsErr(v) == DOMAIN v = {"tag", "items"} /\ v.tag = "TypeError"
Restrict(f, S) == [k \in S |-> f[k]]
\* d[k] = v on a dict
DictSet(d, k, v) == [x \in DOMAIN d \cup {k} |-> IF x = k THEN v ELSE d[x]]
\* d.pop(k)
DictPop(d, k) == Restrict(d, DOMAIN d \ {k})

\* A path string is the sequence of its name tokens and separators.
\* the characters os.path.basename splits at: posixpath knows "/" alone,
\* ntpath "/" and "\\"
Seps(os) == IF os = "nt" THEN {"/", "\\"} ELSE {"/"}
\* ntpath.splitdrive: a leading drive is not part of the tail (posixpath has
\* no drive)
DriveLen(os, path) == IF os = "nt" /\ Len(path) > 0 /\ path[1] = "C:" THEN 1 ELSE 0
\* os.path.basename(path): what follows the last separator
Basename(os, path) ==
  LET cut == {i \in (DriveLen(os, path) + 1)..Len(path) : path[i] \in Seps(os)}
      last == IF cut = {} THEN DriveLen(os, path) ELSE CHOOSE i \in cut : \A j \in cut : j <= i
  IN  SubSeq(path, last + 1, Len(path))

\* The code-object path given with --co.
CoArg == <<"build", "/", "lib", "/", "extop_gfx.co">>
\* forms the path may be given in: absolute, relative with directories,
\* bare, with a drive
CoArgs ==
  {CoArg, <<"/", "opt", "/", "extop_gfx.co">>, <<"extop_gfx.co">>,
   <<"C:", "extop_gfx.co">>, <<"C:", "\\", "lib", "\\", "extop_gfx.co">>}

\* The metadata documents of the source folder: a file name (stem, suffix
\* before the extension) and the decoded mapping.
SrcFiles ==
  { [name |-> <<"add", "gfx90a">>,
     meta |-> [arch |-> "gfx90a", op |-> "gemm", io_type |-> "f16", kernel |-> "k1"]],
    [name |-> <<"mul", "gfx90a">>,
     meta |-> [arch |-> "gfx90a", op |-> "gemm", io_type |-> "f16", kernel |-> "k2"]],
    [name |-> <<"add", "gfx942">>,
     meta |-> [arch |-> "gfx942", op |-> "gemm", io_type |-> "f16", kernel |-> "k3"]] }

\* a document that lacks the field k
Without(k) ==
  [name |-> <<"cut", "gfx90a">>,
   meta |-> DictPop([arch |-> "gfx90a", op |-> "gemm", io_type |-> "f16", kernel |-> "k4"], k)]
\* a document that already carries a co_path
Stale ==
  [name |-> <<"old", "gfx942">>,
   meta |-> [arch |-> "gfx942", op |-> "trsm", io_type |-> "f32", kernel |-> "k5",
             co_path |-> <<"stale", "/", "prev.co">>]]
\* a document whose arch field is not the architecture of its file name
Foreign ==
  [name |-> <<"ext", "gfx90a">>,
   meta |-> [arch |-> "gfx942", op |-> "gemm", io_type |-> "f16", kernel |-> "k6"]]

\* The source folders a run may be pointed at with --src.
SrcFolders == {"ops", "noarch", "noop", "notype", "mixed", "empty"}
Folder(src) ==
  CASE src = "ops" -> SrcFiles
    [] src = "noarch" -> {CHOOSE f \in SrcFiles : f.meta["kernel"] = "k1", Without("arch")}
    [] src = "noop" -> {CHOOSE f \in SrcFiles : f.meta["kernel"] = "k1", Without("op")}
    [] src = "notype" -> {CHOOSE f \in SrcFiles : f.meta["kernel"] = "k1", Without("io_type")}
    [] src = "mixed" -> SrcFiles \cup {Stale, Foreign}
    [] OTHER -> {}

\* glob.glob(f"{src_folder}/*{opt_arch}.{input_format}"): the matched files
Glob(src, arch) == {f \in Folder(src) : f.name[2] = arch}

\* every enumeration order glob may return the set S in
Perms(S) ==
  {s \in [1..Cardinality(S) -> S] : \A i, j \in 1..Cardinality(S) : i # j => s[i] # s[j]}

\* kernel records used in previously published libraries and fragments
Rec(k) == [io_type |-> "f16", kernel |-> k, co_path |-> <<"extop_gfx.co">>]

\* ----------------------------------------------------------------- Loader
\* a loader that puts each record at the head of its bucket
BucketPrepend(idx, a, o, t, rec) ==
  LET byOp == IF a \in DOMAIN idx THEN idx[a] ELSE EmptyDict
      byDt == IF o \in DOMAIN byOp THEN byOp[o] ELSE EmptyDict
      lst  == IF t \in DOMAIN byDt THEN byDt[t] ELSE List(<<>>)
  IN  DictSet(idx, a, DictSet(byOp, o, DictSet(byDt, t, List(<<rec>> \o lst.items))))

\* lib_meta[arch][op][datatype].append(meta_dict) on the nested defaultdict:
\* a missing level springs into being empty.
BucketAppend(idx, a, o, t, rec) ==
  LET byOp == IF a \in DOMAIN idx THEN idx[a] ELSE EmptyDict
      byDt == IF o \in DOMAIN byOp THEN byOp[o] ELSE EmptyDict
      lst  == IF t \in DOMAIN byDt THEN byDt[t] ELSE List(<<>>)
  IN  DictSet(idx, a, DictSet(byOp, o, DictSet(byDt, t, List(Append(lst.items, rec)))))

\* a loader that passes over a document with a required field missing
LoadDocSkips(idx, meta, os, co) ==
  LET m1 == DictSet(meta, "co_path", Basename(os, co)) IN
  IF ~ ({"arch", "op", "io_type"} \subseteq DOMAIN m1)
  THEN [ok |-> TRUE, index |-> idx]
  ELSE LET m3 == DictPop(DictPop(m1, "arch"), "op")
       IN  [ok |-> TRUE,
            index |-> BucketAppend(idx, m1["arch"], m1["op"], m3["io_type"], m3)]

\* a loader that gives a co_path only to a document that has none
LoadDocKeepsCoPath(idx, meta, os, co) ==
  LET m1 == IF "co_path" \in DOMAIN meta THEN meta
            ELSE DictSet(meta, "co_path", Basename(os, co)) IN
  IF ~ ({"arch", "op", "io_type"} \subseteq DOMAIN m1)
  THEN [ok |-> FALSE, index |-> idx]
  ELSE LET m3 == DictPop(DictPop(m1, "arch"), "op")
       IN  [ok |-> TRUE,
            index |-> BucketAppend(idx, m1["arch"], m1["op"], m3["io_type"], m3)]

\* The body of the loader loop for one decoded document; ok = FALSE is the
\* KeyError of a missing required field.
LoadDoc(idx, meta, os, co) ==
  LET m1 == DictSet(meta, "co_path", Basename(os, co)) IN
  IF ~ ({"arch", "op", "io_type"} \subseteq DOMAIN m1)
  THEN [ok |-> FALSE, index |-> idx]
  ELSE LET m3 == DictPop(DictPop(m1, "arch"), "op")
       IN  [ok |-> TRUE,
            index |-> BucketAppend(idx, m1["arch"], m1["op"], m3["io_type"], m3)]

\* The loader loop over the files in the order glob returned them.
RECURSIVE LoadFrom(_, _, _, _, _)
LoadFrom(idx, fs, i, os, co) ==
  IF i > Len(fs) THEN [ok |-> TRUE, index |-> idx]
  ELSE LET r == LoadDoc(idx, fs[i].meta, os, co)
       IN  IF r.ok THEN LoadFrom(r.index, fs, i + 1, os, co) ELSE r
LoadAll(fs, os, co) == LoadFrom(EmptyDict, fs, 1, os, co)

\* ---------------------------------------------------- Serialization
\* A serialized index is a header block carrying the number of top-level
\* entries followed by one block per entry; each block is one OS write.
Hdr(n) == [k |-> "hdr", n |-> n]
Ent(a, v) == [k |-> a, v |-> v]
\* what a read finds where a write skipped past the end of a truncated file
Hole == [k |-> "hole", n |-> 0]

RECURSIVE EncodeFrom(_, _)
EncodeFrom(d, i) ==
  IF i > Len(ArchOrder) THEN <<>>
  ELSE (IF ArchOrder[i] \in DOMAIN d
        THEN <<Ent(ArchOrder[i], d[ArchOrder[i]])>> ELSE <<>>)
       \o EncodeFrom(d, i + 1)
\* _WRITERS[fmt].dump(data, f)
Encode(d) == <<Hdr(Cardinality(DOMAIN d))>> \o EncodeFrom(d, 1)

\* whether _WRITERS[fmt].load(f) decodes the content c without raising
Decodable(c) ==
  /\ Len(c) >= 1
  /\ c[1].k = "hdr"
  /\ c[1].n = Len(c) - 1
  /\ \A i \in 2..Len(c) : c[i].k \in Archs
\* _WRITERS[fmt].load(f) of a decodable content (a repeated key keeps its
\* last value)
Decode(c) ==
  [a \in {c[i].k : i \in 2..Len(c)} |->
     c[CHOOSE i \in 2..Len(c) : c[i].k = a /\ \A j \in 2..Len(c) : c[j].k = a => j <= i].v]

\* a file cut short: its header announces an entry that is not there
Corrupt == <<Hdr(1)>>
\* a file that decodes, but to a list and not to a mapping
TopList == <<[k |-> "arr", n |-> 0]>>

\* ------------------------------------------------------------ Merge Engine
\* the merge with the operands swapped: {**lib_meta, **org}
ShallowMergeOldWins(org, new) ==
  [k \in DOMAIN org \cup DOMAIN new |-> IF k \in DOMAIN org THEN org[k] ELSE new[k]]

\* lib_meta = {**org, **lib_meta}
ShallowMerge(org, new) ==
  [k \in DOMAIN org \cup DOMAIN new |-> IF k \in DOMAIN new THEN new[k] ELSE org[k]]

\* a merge that returns source and forgets what target had
deep_merge_forgets(target, source) == source

\* deep_merge(target, source), returning the merged target.  A target
\* that is no mapping (the value met at a shared key whose source value is a
\* mapping) is returned as it is when source is empty, the loop having
\* nothing to do; otherwise "key in target", "target[key]" or
\* "target[key] = value" raises TypeError on it.
RECURSIVE deep_merge(_, _)
deep_merge(target, source) ==
  IF ~IsDict(target)
  THEN IF DOMAIN source = {} THEN target ELSE TypeErr
  ELSE LET rec == {key \in DOMAIN source : IsDict(source[key]) /\ key \in DOMAIN target}
           sub == [key \in rec |-> deep_merge(target[key], source[key])]
       IN  IF \E key \in rec : IsErr(sub[key]) THEN TypeErr
           ELSE [key \in DOMAIN target \cup DOMAIN source |->
                   IF key \in rec THEN sub[key]
                   ELSE IF key \in DOMAIN source THEN source[key]
                   ELSE target[key]]

\* ------------------------------------------------------------- file system
NoFile == "nofile"
\* <output>/hipblasltExtOpLibrary.<fmt>
Dst == <<"lib", 0, 0>>
\* a publisher that opens the destination itself for writing
TmpNameInPlace(pid, ms) == Dst
\* f"{path}.tmp-{os.getpid()}-{int(time.time() * 1000)}"
TmpName(pid, ms) == <<"tmp", pid, ms>>

\* previously published libraries
Bucket(o, t, recs) == (o :> (t :> List(recs)))
LibB == ("gfx942" :> Bucket("gemm", "f16", <<Rec("kb")>>))
LibAB ==
  ("gfx90a" :> (Bucket("gemm", "f16", <<Rec("ka")>>) @@ Bucket("trsm", "f32", <<Rec("kt")>>)))
  @@ LibB
OldLibs == {LibB, LibAB}

VARIABLES
  osname,     \* os.name of the platform that serves the output directory
  hasCtypes,  \* whether "import ctypes" succeeded
  files,      \* path -> inode, or NoFile
  content,    \* inode -> sequence of blocks
  bld,        \* the builder processes (ExtOpCreateLibrary.py), by name
  hold,       \* another process's open handle on the destination
  red,        \* the reducer process (ExtOpMergeLibrary.py)
  mrg,        \* one call of deep_merge: its arguments and its result
  cod         \* one dump of an index to a file and the load of it back

vars == <<osname, hasCtypes, files, content, bld, hold, red, mrg, cod>>

\* <output>/hipblasltExtOpLibrary_<n>.<fmt>, the intermediate files
IntName(n) == <<"int", n, 0>>
IntPaths == {IntName(1), IntName(2)}
IntInode(f) == IF f = IntName(1) THEN "i1" ELSE "i2"

\* the inode of an intermediate file written after the reducer's scan
LateInode(f) == IF f = IntName(1) THEN "l1" ELSE "l2"
\* <output>/hipblasltExtOpLibrary_<n>.yaml, an intermediate file of
\* another encoding than the run's --format
YamlName(n) == <<"yaml", n, 0>>

Paths ==
  {Dst} \cup {TmpName(i, m) : i \in Pids, m \in Millis} \cup IntPaths \cup {YamlName(1)}
Inodes == {"old", "red", "i1", "i2", "l1", "l2", "y1"} \cup Builders

\* --format of the reducer run
LibFormat == "dat"
FixedBase == "hipblasltExtOpLibrary"
\* the base name of a path, cut into tokens at "_" and "."; the digits of
\* a process id and of a time stamp are one token each
FileName(f) ==
  IF f = Dst THEN <<FixedBase, ".", LibFormat>>
  ELSE IF f[1] = "tmp" THEN <<FixedBase, ".", LibFormat, ".tmp-", "pid", "-", "ms">>
  ELSE IF f[1] = "int" THEN <<FixedBase, "_", ArchOrder[f[2]], ".", LibFormat>>
  ELSE <<FixedBase, "_", ArchOrder[f[2]], ".", "yaml">>
\* the pattern hipblasltExtOpLibrary*.<fmt>, without the underscore
GlobMatchAnyStem(name) ==
  /\ Len(name) >= 3
  /\ name[1] = FixedBase
  /\ name[Len(name) - 1] = "." /\ name[Len(name)] = LibFormat
\* fnmatch of a base name against hipblasltExtOpLibrary_*.<fmt>: the name
\* begins with the fixed base name and "_" and ends with "." and the format
GlobMatch(name) ==
  /\ Len(name) >= 4
  /\ name[1] = FixedBase /\ name[2] = "_"
  /\ name[Len(name) - 1] = "." /\ name[Len(name)] = LibFormat

\* ------------------------------------------------------------------ errors
NoError == [type |-> "none", winerror |-> NoCode, errno |-> NoCode, msg |-> ""]
\* OSError(code, msg): two arguments set errno alone; winerror stays None
OSError2(code, msg) ==
  [type |-> IF code = EACCES THEN "PermissionError" ELSE "OSError",
   winerror |-> NoCode, errno |-> code, msg |-> msg]
\* the OSError the interpreter raises for a failed Win32 call (winerror set,
\* errno translated) or a failed POSIX call
SharingViolation == [type |-> "PermissionError", winerror |-> 32, errno |-> EACCES, msg |-> "in use"]
FileNotFound == [type |-> "FileNotFoundError", winerror |-> 2, errno |-> 2, msg |-> "not found"]
NoEntry == [type |-> "FileNotFoundError", winerror |-> NoCode, errno |-> 2, msg |-> "not found"]
FileExists == [type |-> "FileExistsError", winerror |-> 183, errno |-> 17, msg |-> "exists"]
DecodeError == [type |-> "ValueError", winerror |-> NoCode, errno |-> NoCode, msg |-> "decode"]
UsageError == [type |-> "SystemExit", winerror |-> NoCode, errno |-> NoCode, msg |-> "usage"]
\* the OSError of an open refused with errno code; Windows reports the Win32
\* error beside it (5 access denied, 170 busy)
Denied(os, code) ==
  IF os = "nt"
  THEN [OSError2(code, "denied") EXCEPT !.winerror = IF code = EACCES THEN 5 ELSE 170]
  ELSE OSError2(code, "denied")
MergeTypeError == [type |-> "TypeError", winerror |-> NoCode, errno |-> NoCode, msg |-> "merge"]
NotAMapping == [type |-> "TypeError", winerror |-> NoCode, errno |-> NoCode, msg |-> "not a mapping"]
NoSpace == [type |-> "OSError", winerror |-> NoCode, errno |-> 28, msg |-> "no space"]
KeyError == [type |-> "KeyError", winerror |-> NoCode, errno |-> NoCode, msg |-> "key"]
CouldNotRead ==
  [type |-> "PermissionError", winerror |-> NoCode, errno |-> NoCode, msg |-> "Could not read"]
CouldNotReplace ==
  [type |-> "PermissionError", winerror |-> NoCode, errno |-> NoCode, msg |-> "Could not replace"]

Min(a, b) == IF a < b THEN a ELSE b
\* a backoff that never grows
ReadDelayFlat(i) == ReadBaseMs
\* base * (2 ** min(i, 8)), the sleep after failed read attempt i without
\* its jitter, in milliseconds
ReadDelay(i) == ReadBaseMs * 2^Min(i, BackoffCap)
\* 0.05 * (2 ** min(i, 8)), the sleep after failed replace attempt i
\* without its jitter, in milliseconds
ReplaceDelay(i) == ReplaceBaseMs * 2^Min(i, BackoffCap)
\* random.random() * 0.01 in whole milliseconds: its least and greatest
Jitters == {0, JitterMs - 1}

\* the test both retry loops apply to a caught error:
\* getattr(e, "winerror", 0) in (5, 32, 33) or getattr(e, "errno", None) in (EACCES, EBUSY)
Transient(e) == e.winerror \in {5, 32, 33} \/ e.errno \in {EACCES, EBUSY}

\* ctypes.get_last_error() after a call that failed with Win32 error w: the
\* private copy ctypes keeps, which a library loaded without use_last_error
\* (as ctypes.windll is) never updates.
LastError(w) == {0, w}

\* whether a process other than p has the inode open
Held(p, ino) ==
  /\ ino # NoFile
  /\ \/ \E q \in Builders \ {p} : bld[q].whnd = ino \/ bld[q].rhnd = ino
     \/ hold.ino = ino
     \/ red.whnd = ino

Ok == [ok |-> TRUE, e |-> NoError, win32 |-> 0]
Raise(e, w) == [ok |-> FALSE, e |-> e, win32 |-> w]

\* _replace_atomic(tmp, path): the outcomes the platform allows; win32 is
\* the error the Win32 call itself failed with.
ReplaceAtomic(p) ==
  LET sino == files[TmpName(bld[p].pid, bld[p].ms)]
      dino == files[Dst]
  IN  IF osname = "nt" /\ hasCtypes
      THEN \* MoveFileExW(src, dst, REPLACE_EXISTING | WRITE_THROUGH); rc == 0
           IF sino = NoFile
           THEN {Raise(OSError2(c, "MoveFileExW failed"), 2) : c \in LastError(2)}
           ELSE IF Held(p, sino) \/ Held(p, dino)
           THEN UNION {{Raise(OSError2(c, "MoveFileExW failed"), w) : c \in LastError(w)}
                       : w \in {5, 32}}
           ELSE {Ok}
      ELSE IF osname = "nt"
      THEN \* os.rename on Windows does not replace an existing file
           IF sino = NoFile THEN {Raise(FileNotFound, 2)}
           ELSE IF dino # NoFile THEN {Raise(FileExists, 183)}
           ELSE IF Held(p, sino) THEN {Raise(SharingViolation, 32)}
           ELSE {Ok}
      ELSE \* os.rename on POSIX
           IF sino = NoFile THEN {Raise(NoEntry, 0)}
           ELSE IF bld[p].disk = "busy" THEN {Raise(OSError2(EBUSY, "rename"), 0)}
           ELSE {Ok}

\* open(path, mode) of the destination for reading
OpenRead(p) ==
  LET dino == files[Dst]
  IN  IF dino = NoFile THEN Raise(IF osname = "nt" THEN FileNotFound ELSE NoEntry, 2)
      ELSE IF bld[p].deny # 0
      THEN Raise(Denied(osname, bld[p].deny), IF bld[p].deny = EACCES THEN 5 ELSE 170)
      ELSE IF osname = "nt" /\ hold.ino = dino /\ hold.mode = "excl"
      THEN Raise(SharingViolation, 32)
      ELSE Ok

\* the content after one write of block b at block offset k (1-based) of
\* content c; a write past the end leaves a hole
RECURSIVE Pad(_, _)
Pad(c, n) == IF Len(c) >= n THEN c ELSE Pad(Append(c, Hole), n)
WriteAt(c, k, b) ==
  LET c1 == Pad(c, k - 1)
  IN  IF Len(c1) >= k THEN [c1 EXCEPT ![k] = b] ELSE Append(c1, b)

\* ------------------------------------------------- builder: the main script
\* pc: ("args" ->) "load" -> "exists" -> ("read" -> "reading" ->) "dump" -> "writing"
\*     -> "replace" -> "done"; "failed" is an uncaught exception, "killed" a
\*     termination from outside, "idle" a builder that takes no part.
InitBuilder(active, i, a) ==
  [pc |-> IF active THEN "load" ELSE "idle",
   pid |-> i,             \* os.getpid()
   arch |-> a,            \* args.arch
   src |-> "ops",         \* args.src
   co |-> CoArg,          \* args.co
   extra |-> FALSE,       \* an option the parser does not declare was given
   deny |-> 0,            \* the errno an open of the library is refused with, or 0
   globbed |-> <<>>,      \* the matched documents in the order glob returned them
   fresh |-> EmptyDict,   \* lib_meta as the loader loop left it
   org |-> <<>>,          \* org, once read
   lib_meta |-> EmptyDict,
   ms |-> 0,              \* int(time.time() * 1000) of the temporary name
   whnd |-> NoFile,       \* the inode open for writing
   rhnd |-> NoFile,       \* the inode open for reading
   woff |-> 0,            \* blocks written through whnd
   ratt |-> 0,            \* failed attempts of _retry_read
   att |-> 0,             \* failed attempts of the replace loop
   win32 |-> 0,           \* the Win32 error of the last failed replace
   rsleep |-> 0,          \* the last sleep of _retry_read, in milliseconds
   slept |-> 0,           \* the sleeps of the replace loop so far, jitter aside
   disk |-> "ok",         \* "full": a write may fail; "nosync": os.fsync raises;
                          \* "busy": the file server refuses the rename
   sync |-> "none",       \* how the flush and fsync of the temporary file went
   at |-> "",             \* where the run failed
   err |-> NoError]

InitFiles(withOld, lib) ==
  /\ files = [f \in Paths |-> IF f = Dst /\ withOld THEN "old" ELSE NoFile]
  /\ content = [n \in Inodes |-> IF n = "old" /\ withOld THEN Encode(lib) ELSE <<>>]

\* the reducer before it starts ("idle": it takes no part)
InitReducer(active) ==
  [pc |-> IF active THEN "scan" ELSE "idle",
   todo |-> <<>>,         \* intermediate_files
   i |-> 1,               \* position of the running loop in intermediate_files
   lib_meta |-> EmptyDict,
   whnd |-> NoFile,       \* the inode open for writing
   woff |-> 0,            \* blocks written through whnd
   at |-> "",             \* where the run failed
   err |-> NoError,
   run |-> 1,             \* which run of the reducer this is
   prev |-> EmptyDict,    \* the lib_meta of the run before this one
   prevAt |-> "",         \* where the run before this one failed
   prevTodo |-> {},       \* the intermediate files the run before found
   prevGone |-> {}]       \* those of them it had deleted when it failed

NoMerge == [target |-> EmptyDict, source |-> EmptyDict, result |-> EmptyDict, done |-> FALSE]

\* A Python mapping as the serializers see it: its value, whether the
\* mapping itself is a defaultdict (root) and which of its top-level values
\* are (dd).  The loader's lib_meta is a defaultdict at every level; a
\* mapping decoded from a file is plain.
Obj(r, d, v) == [root |-> r, dd |-> d, val |-> v]
Plain(v) == Obj(FALSE, {}, v)
\* lib_meta as line 212 creates it and the loader loop fills it
FreshObj(fresh) == Obj(TRUE, DOMAIN fresh, fresh)
\* {**org, **lib_meta}: a plain dict whose values under the fresh keys are
\* still the loader's defaultdicts
MergedObj(org, fresh) == Obj(FALSE, DOMAIN fresh, ShallowMerge(org, fresh))

NoFmtError == "none"
\* _WRITERS[fmt].dump(data, f): msgpack and json write a defaultdict as a
\* map; yaml's default Dumper has a representer for dict alone and writes
\* any other object as python/object/apply with its constructor arguments,
\* here the default_factory, a lambda of __main__.
Dump(fmt, o) ==
  [fmt |-> fmt,
   tags |-> IF fmt # "yaml" THEN {}
            ELSE (IF o.root THEN {"/"} ELSE {}) \cup o.dd,
   body |-> o.val]
\* _WRITERS[fmt].load(f) as _retry_read calls it, with the stream alone:
\* yaml.load needs a Loader argument from PyYAML 6 on and uses FullLoader
\* before; no Loader finds the name __main__.<lambda> of a tagged node.
Load(fmt, api, doc) ==
  IF fmt = "yaml" /\ api = "v6" THEN [ok |-> FALSE, err |-> "TypeError", obj |-> Plain(EmptyDict)]
  ELSE IF fmt = "yaml" /\ doc.tags # {}
  THEN [ok |-> FALSE, err |-> "ConstructorError", obj |-> Plain(EmptyDict)]
  ELSE [ok |-> TRUE, err |-> NoFmtError, obj |-> Plain(doc.body)]

NoCodec ==
  [pc |-> "idle", fmt |-> "dat", api |-> "v6", obj |-> Plain(EmptyDict),
   doc |-> Dump("dat", Plain(EmptyDict)), out |-> Load("dat", "v6", Dump("dat", Plain(EmptyDict)))]

InitWith(active) ==
  /\ red = InitReducer(FALSE)
  /\ mrg = NoMerge
  /\ cod = NoCodec
  /\ osname \in {"posix", "nt"}
  /\ hasCtypes \in (IF osname = "nt" THEN BOOLEAN ELSE {TRUE})
  /\ \E withOld \in BOOLEAN, lib \in OldLibs :
        /\ withOld \/ lib = LibB
        /\ InitFiles(withOld, lib)
  /\ bld \in {b \in [Builders -> {InitBuilder(on, i, a) : on \in BOOLEAN, i \in Pids, a \in Archs}] :
                /\ b["b1"].pid = 1
                /\ \A p \in Builders : (b[p].pc = "load") = (p \in active)
                                       /\ (p \notin active => b[p].pid = 1 /\ b[p].arch = "gfx90a")}
  /\ hold = [ino |-> NoFile, mode |-> "share"]

Init == InitWith(Builders)

Fail(p, where, e) ==
  bld' = [bld EXCEPT ![p].pc = "failed", ![p].at = where, ![p].err = e,
                     ![p].whnd = NoFile, ![p].rhnd = NoFile]

\* lines 181-200: ap.parse_args(); an undeclared option ends the run with
\* "unrecognized arguments" (SystemExit)
ParseArgs(p) ==
  /\ bld[p].pc = "args"
  /\ IF bld[p].extra
     THEN Fail(p, "args", UsageError)
     ELSE bld' = [bld EXCEPT ![p].pc = "load"]
  /\ UNCHANGED <<osname, hasCtypes, files, content, hold, red, mrg, cod>>

\* lines 212-226: the loader loop over glob's result
LoaderRun(p) ==
  /\ bld[p].pc = "load"
  /\ \E fs \in Perms(Glob(bld[p].src, bld[p].arch)) :
       LET r == LoadAll(fs, osname, bld[p].co)
       IN  IF r.ok
           THEN bld' = [bld EXCEPT ![p].pc = "exists", ![p].globbed = fs,
                                   ![p].fresh = r.index, ![p].lib_meta = r.index]
           ELSE Fail(p, "load", KeyError)
  /\ UNCHANGED <<osname, hasCtypes, files, content, hold, red, mrg, cod>>

\* line 234: os.path.exists(output_lib_path)
ExistsCheck(p) ==
  /\ bld[p].pc = "exists"
  /\ bld' = [bld EXCEPT ![p].pc = IF files[Dst] # NoFile THEN "read" ELSE "dump"]
  /\ UNCHANGED <<osname, hasCtypes, files, content, hold, red, mrg, cod>>

\* a reader that, its attempts used up, goes on as if there were no library
ReadOpenFallsThrough(p) ==
  /\ bld[p].pc = "read"
  /\ LET r == OpenRead(p)
     IN  IF r.ok
         THEN bld' = [bld EXCEPT ![p].pc = "reading", ![p].rhnd = files[Dst]]
         ELSE IF bld[p].ratt + 1 >= ReadTries
         THEN bld' = [bld EXCEPT ![p].pc = "dump", ![p].ratt = @ + 1]
         ELSE bld' = [bld EXCEPT ![p].ratt = @ + 1]
  /\ UNCHANGED <<osname, hasCtypes, files, content, hold, red, mrg, cod>>

\* a read loop that takes every failed open for a busy file
ReadOpenRetriesAll(p) ==
  /\ bld[p].pc = "read"
  /\ LET r == OpenRead(p)
     IN  IF r.ok
         THEN bld' = [bld EXCEPT ![p].pc = "reading", ![p].rhnd = files[Dst]]
         ELSE IF osname # "nt" THEN Fail(p, "read", r.e)
         ELSE IF bld[p].ratt + 1 >= ReadTries
         THEN bld' = [bld EXCEPT ![p].pc = "failed", ![p].at = "read",
                                 ![p].err = CouldNotRead, ![p].ratt = @ + 1]
         ELSE bld' = [bld EXCEPT ![p].ratt = @ + 1]
  /\ UNCHANGED <<osname, hasCtypes, files, content, hold, red, mrg, cod>>

\* a read loop that retries on every platform
ReadOpenRetriesAnywhere(p) ==
  /\ bld[p].pc = "read"
  /\ LET r == OpenRead(p)
     IN  IF r.ok
         THEN bld' = [bld EXCEPT ![p].pc = "reading", ![p].rhnd = files[Dst]]
         ELSE IF Transient(r.e)
         THEN IF bld[p].ratt + 1 >= ReadTries
              THEN bld' = [bld EXCEPT ![p].pc = "failed", ![p].at = "read",
                                      ![p].err = CouldNotRead, ![p].ratt = @ + 1]
              ELSE bld' = [bld EXCEPT ![p].ratt = @ + 1]
         ELSE Fail(p, "read", r.e)
  /\ UNCHANGED <<osname, hasCtypes, files, content, hold, red, mrg, cod>>

\* _retry_read: one attempt to open the destination, and what the loop does
\* with a failure
ReadOpen(p) ==
  /\ bld[p].pc = "read"
  /\ LET r == OpenRead(p)
     IN  IF r.ok
         THEN bld' = [bld EXCEPT ![p].pc = "reading", ![p].rhnd = files[Dst]]
         ELSE IF osname # "nt" THEN Fail(p, "read", r.e)
         ELSE IF Transient(r.e)
         THEN \E j \in Jitters :
                IF bld[p].ratt + 1 >= ReadTries
                THEN bld' = [bld EXCEPT ![p].pc = "failed", ![p].at = "read",
                                        ![p].err = CouldNotRead, ![p].ratt = @ + 1,
                                        ![p].rsleep = ReadDelay(bld[p].ratt) + j]
                ELSE bld' = [bld EXCEPT ![p].ratt = @ + 1,
                                        ![p].rsleep = ReadDelay(bld[p].ratt) + j]
         ELSE Fail(p, "read", r.e)
  /\ UNCHANGED <<osname, hasCtypes, files, content, hold, red, mrg, cod>>

\* a builder that takes a library it cannot use for an empty one
ReadLoadGuesses(p) ==
  /\ bld[p].pc = "reading"
  /\ LET c == content[bld[p].rhnd]
         org == IF Decodable(c) THEN Decode(c) ELSE EmptyDict
     IN  bld' = [bld EXCEPT ![p].pc = "dump", ![p].rhnd = NoFile,
                            ![p].org = <<org>>,
                            ![p].lib_meta = ShallowMerge(org, bld[p].lib_meta)]
  /\ UNCHANGED <<osname, hasCtypes, files, content, hold, red, mrg, cod>>

\* _retry_read: load from the open file and close it; then line 236
ReadLoad(p) ==
  /\ bld[p].pc = "reading"
  /\ LET c == content[bld[p].rhnd]
     IN  IF Decodable(c)
         THEN bld' = [bld EXCEPT ![p].pc = "dump", ![p].rhnd = NoFile,
                                 ![p].org = <<Decode(c)>>,
                                 ![p].lib_meta = ShallowMerge(Decode(c), bld[p].lib_meta)]
         ELSE IF c = TopList
         THEN \* load returns a list; {**org, **lib_meta} raises TypeError
              Fail(p, "merge", NotAMapping)
         ELSE IF c = <<>>
         THEN \* an empty file: msgpack and json raise, yaml returns None
              Fail(p, "read", DecodeError) \/ Fail(p, "merge", NotAMapping)
         ELSE Fail(p, "read", DecodeError)
  /\ UNCHANGED <<osname, hasCtypes, files, content, hold, red, mrg, cod>>

\* _atomic_dump lines 151-154 and the open of _dump_to: the temporary file
\* is created, or truncated if the name is already there
DumpOpen(p) ==
  /\ bld[p].pc = "dump"
  /\ \E m \in Millis :
       LET tmp == TmpName(bld[p].pid, m)
           ino == IF files[tmp] = NoFile THEN p ELSE files[tmp]
       IN  /\ files' = [files EXCEPT ![tmp] = ino]
           /\ content' = [content EXCEPT ![ino] = <<>>]
           /\ bld' = [bld EXCEPT ![p].pc = "writing", ![p].ms = m, ![p].whnd = ino,
                                 ![p].woff = 0]
  /\ UNCHANGED <<osname, hasCtypes, hold, red, mrg, cod>>

\* _dump_to: one write of the serializer's output reaches the file
DumpWrite(p) ==
  /\ bld[p].pc = "writing"
  /\ bld[p].woff < Len(Encode(bld[p].lib_meta))
  /\ \/ LET k == bld[p].woff + 1
        IN  /\ content' = [content EXCEPT ![bld[p].whnd] =
                             WriteAt(@, k, Encode(bld[p].lib_meta)[k])]
            /\ bld' = [bld EXCEPT ![p].woff = k]
     \/ \* dump raises; the with block closes the file on the way out
        /\ bld[p].disk = "full"
        /\ Fail(p, "dump", NoSpace)
        /\ content' = content
  /\ UNCHANGED <<osname, hasCtypes, files, hold, red, mrg, cod>>

\* a publisher that gives up when the sync request fails
DumpCloseStrict(p) ==
  /\ bld[p].pc = "writing"
  /\ bld[p].woff = Len(Encode(bld[p].lib_meta))
  /\ IF bld[p].disk = "nosync"
     THEN Fail(p, "dump", OSError2(22, "fsync"))
     ELSE bld' = [bld EXCEPT ![p].pc = "replace", ![p].whnd = NoFile, ![p].sync = "ok"]
  /\ UNCHANGED <<osname, hasCtypes, files, content, hold, red, mrg, cod>>

\* _dump_to: flush and fsync, whose failure is passed over, and the close
\* that ends the with block
DumpClose(p) ==
  /\ bld[p].pc = "writing"
  /\ bld[p].woff = Len(Encode(bld[p].lib_meta))
  /\ bld' = [bld EXCEPT ![p].pc = "replace", ![p].whnd = NoFile,
                        ![p].sync = IF bld[p].disk = "nosync" THEN "failed" ELSE "ok"]
  /\ UNCHANGED <<osname, hasCtypes, files, content, hold, red, mrg, cod>>

\* a rename that leaves an existing destination alone
RenamedKeepsExisting(p) ==
  LET tmp == TmpName(bld[p].pid, bld[p].ms)
  IN  IF files[Dst] # NoFile THEN [files EXCEPT ![tmp] = NoFile]
      ELSE [files EXCEPT ![Dst] = files[tmp], ![tmp] = NoFile]

\* the rename itself: the temporary name's inode becomes the destination's
Renamed(p) ==
  LET tmp == TmpName(bld[p].pid, bld[p].ms)
  IN  [files EXCEPT ![Dst] = files[tmp], ![tmp] = NoFile]

\* a replace loop that retries on every platform
ReplaceRetriesAnywhere(p) ==
  /\ bld[p].pc = "replace"
  /\ \E r \in ReplaceAtomic(p) :
       IF r.ok
       THEN /\ files' = Renamed(p)
            /\ bld' = [bld EXCEPT ![p].pc = "done"]
       ELSE /\ files' = files
            /\ IF Transient(r.e)
               THEN IF bld[p].att + 1 >= ReplaceTries
                    THEN bld' = [bld EXCEPT ![p].pc = "failed", ![p].at = "replace",
                                            ![p].err = CouldNotReplace,
                                            ![p].att = @ + 1, ![p].win32 = r.win32,
                                            ![p].slept = @ + ReplaceDelay(bld[p].att)]
                    ELSE bld' = [bld EXCEPT ![p].att = @ + 1, ![p].win32 = r.win32,
                                            ![p].slept = @ + ReplaceDelay(bld[p].att)]
               ELSE bld' = [bld EXCEPT ![p].pc = "failed", ![p].at = "replace",
                                       ![p].err = r.e, ![p].win32 = r.win32]
  /\ UNCHANGED <<osname, hasCtypes, content, hold, red, mrg, cod>>

\* _atomic_dump lines 160-175: one pass of the replace loop
Replace(p) ==
  /\ bld[p].pc = "replace"
  /\ \E r \in ReplaceAtomic(p) :
       IF r.ok
       THEN /\ files' = Renamed(p)
            /\ bld' = [bld EXCEPT ![p].pc = "done"]
       ELSE /\ files' = files
            /\ IF osname # "nt"
               THEN bld' = [bld EXCEPT ![p].pc = "failed", ![p].at = "replace",
                                       ![p].err = r.e, ![p].win32 = r.win32]
               ELSE IF Transient(r.e)
               THEN IF bld[p].att + 1 >= ReplaceTries
                    THEN bld' = [bld EXCEPT ![p].pc = "failed", ![p].at = "replace",
                                            ![p].err = CouldNotReplace,
                                            ![p].att = @ + 1, ![p].win32 = r.win32,
                                            ![p].slept = @ + ReplaceDelay(bld[p].att)]
                    ELSE bld' = [bld EXCEPT ![p].att = @ + 1, ![p].win32 = r.win32,
                                            ![p].slept = @ + ReplaceDelay(bld[p].att)]
               ELSE bld' = [bld EXCEPT ![p].pc = "failed", ![p].at = "replace",
                                       ![p].err = r.e, ![p].win32 = r.win32]
  /\ UNCHANGED <<osname, hasCtypes, content, hold, red, mrg, cod>>

\* the process is terminated from outside; the system closes its handles
Kill(p) ==
  /\ bld[p].pc \in {"args", "load", "exists", "read", "reading", "dump", "writing", "replace"}
  /\ bld' = [bld EXCEPT ![p].at = bld[p].pc, ![p].pc = "killed",
                        ![p].whnd = NoFile, ![p].rhnd = NoFile]
  /\ UNCHANGED <<osname, hasCtypes, files, content, hold, red, mrg, cod>>

\* Another process opens the destination and keeps the handle for a while;
\* only a platform with mandatory locking lets that handle get in the way.
HolderOpen ==
  /\ osname = "nt"
  /\ hold.ino = NoFile
  /\ files[Dst] # NoFile
  /\ hold' = [ino |-> files[Dst], mode |-> "share"]
  /\ UNCHANGED <<osname, hasCtypes, files, content, bld, red, mrg, cod>>

\* Another process opens the destination without sharing it.
HolderLock ==
  /\ osname = "nt"
  /\ hold.ino = NoFile
  /\ files[Dst] # NoFile
  /\ hold' = [ino |-> files[Dst], mode |-> "excl"]
  /\ UNCHANGED <<osname, hasCtypes, files, content, bld, red, mrg, cod>>

HolderClose ==
  /\ hold.ino # NoFile
  /\ hold' = [ino |-> NoFile, mode |-> "share"]
  /\ UNCHANGED <<osname, hasCtypes, files, content, bld, red, mrg, cod>>

Next ==
  \/ \E p \in Builders : LoaderRun(p)
  \/ \E p \in Builders : ExistsCheck(p)
  \/ \E p \in Builders : ReadOpen(p)
  \/ \E p \in Builders : ReadLoad(p)
  \/ \E p \in Builders : DumpOpen(p)
  \/ \E p \in Builders : DumpWrite(p)
  \/ \E p \in Builders : DumpClose(p)
  \/ \E p \in Builders : Replace(p)
  \/ \E p \in Builders : Kill(p)
  \/ HolderOpen
  \/ HolderClose

\* Builders racing for one destination.
Spec == Init /\ [][Next]_vars

\* One builder beside a process that may lock the destination.
InitSolo == InitWith({"b1"})
NextSolo ==
  \/ Next
  \/ HolderLock
SpecSolo == InitSolo /\ [][NextSolo]_vars

\* One builder run from its command line on: any source folder, any form of
\* the code-object path, with or without the library being readable.
InitLoad ==
  /\ red = InitReducer(FALSE)
  /\ mrg = NoMerge
  /\ cod = NoCodec
  /\ osname \in {"posix", "nt"}
  /\ hasCtypes = TRUE
  /\ \E withOld \in BOOLEAN, c \in {Encode(LibAB), Corrupt, TopList, <<>>} :
       /\ withOld \/ c = <<>>
       /\ files = [f \in Paths |-> IF f = Dst /\ withOld THEN "old" ELSE NoFile]
       /\ content = [n \in Inodes |-> IF n = "old" THEN c ELSE <<>>]
  /\ hold = [ino |-> NoFile, mode |-> "share"]
  /\ \E a \in Archs, s \in SrcFolders, c \in CoArgs, x \in BOOLEAN, r \in {0, EACCES, EBUSY} :
       bld = [p \in Builders |->
                IF p = "b1"
                THEN [InitBuilder(TRUE, 1, a) EXCEPT !.pc = "args", !.src = s, !.co = c,
                                                     !.extra = x, !.deny = r]
                ELSE InitBuilder(FALSE, 1, "gfx90a")]
\* One publish on a disk that may be full or may not support fsync.
InitPublish ==
  /\ red = InitReducer(FALSE)
  /\ mrg = NoMerge
  /\ cod = NoCodec
  /\ osname \in {"posix", "nt"}
  /\ hasCtypes \in (IF osname = "nt" THEN BOOLEAN ELSE {TRUE})
  /\ \E withOld \in BOOLEAN : InitFiles(withOld, LibAB)
  /\ hold = [ino |-> NoFile, mode |-> "share"]
  /\ \E a \in Archs, d \in {"ok", "full", "nosync", "busy"} :
       bld = [p \in Builders |->
                IF p = "b1" THEN [InitBuilder(TRUE, 1, a) EXCEPT !.disk = d]
                ELSE InitBuilder(FALSE, 1, "gfx90a")]
SpecPublish == InitPublish /\ [][Next]_vars

\* Another process removes the library (between the builder's exists check
\* and its read, say); Windows refuses while a handle is open on the file.
Unlink ==
  /\ files[Dst] # NoFile
  /\ osname = "nt" =>
       /\ hold.ino # files[Dst]
       /\ \A p \in Builders : bld[p].rhnd # files[Dst] /\ bld[p].whnd # files[Dst]
  /\ files' = [files EXCEPT ![Dst] = NoFile]
  /\ UNCHANGED <<osname, hasCtypes, content, bld, hold, red, mrg, cod>>

NextLoad ==
  \/ Next
  \/ \E p \in Builders : ParseArgs(p)
  \/ Unlink
SpecLoad == InitLoad /\ [][NextLoad]_vars

\* ------------------------------------------ reducer: ExtOpMergeLibrary.py
\* the per-architecture fragments found in intermediate files
Frag1 == ("gfx90a" :> Bucket("gemm", "f16", <<Rec("r1")>>))
Frag2 ==
  ("gfx90a" :> (Bucket("gemm", "f16", <<Rec("r2")>>) @@ Bucket("trsm", "f32", <<Rec("r3")>>)))
\* a fragment with a list where the others have a mapping by datatype
FragFlat == ("gfx90a" :> ("gemm" :> List(<<Rec("r4")>>)))
FragLibs == {Frag1, Frag2, LibB, FragFlat}

InitReduce ==
  /\ osname \in {"posix", "nt"}
  /\ hasCtypes = TRUE
  /\ bld = [p \in Builders |-> InitBuilder(FALSE, 1, "gfx90a")]
  /\ hold = [ino |-> NoFile, mode |-> "share"]
  /\ mrg = NoMerge
  /\ cod = NoCodec
  /\ red = InitReducer(TRUE)
  /\ \E withOld \in BOOLEAN, c1, c2 \in {<<>>} \cup {Corrupt} \cup {Encode(l) : l \in FragLibs} :
       /\ files = [f \in Paths |->
                     IF f = Dst THEN (IF withOld THEN "old" ELSE NoFile)
                     ELSE IF f = IntName(1) THEN (IF c1 = <<>> THEN NoFile ELSE "i1")
                     ELSE IF f = IntName(2) THEN (IF c2 = <<>> THEN NoFile ELSE "i2")
                     ELSE NoFile]
       /\ content = [n \in Inodes |->
                     IF n = "old" /\ withOld THEN Encode(LibAB)
                     ELSE IF n = "i1" THEN c1
                     ELSE IF n = "i2" THEN c2
                     ELSE <<>>]

RedFail(where, e) ==
  red' = [red EXCEPT !.pc = "failed", !.at = where, !.err = e, !.whnd = NoFile]

\* line 42: glob.glob of the intermediate files, in any order
RedScan ==
  /\ red.pc = "scan"
  /\ \E fs \in Perms({f \in Paths : files[f] # NoFile /\ GlobMatch(FileName(f))}) :
       red' = [red EXCEPT !.pc = "load", !.todo = fs, !.i = 1]
  /\ UNCHANGED <<osname, hasCtypes, files, content, bld, hold, mrg, cod>>

\* a load loop that removes each intermediate file as soon as it is merged
RedLoadDeletes ==
  /\ red.pc = "load"
  /\ red.i <= Len(red.todo)
  /\ LET ino == files[red.todo[red.i]]
     IN  IF ino = NoFile \/ ~Decodable(content[ino])
         THEN RedFail("load", DecodeError) /\ files' = files
         ELSE IF IsErr(deep_merge(red.lib_meta, Decode(content[ino])))
         THEN RedFail("load", MergeTypeError) /\ files' = files
         ELSE /\ red' = [red EXCEPT !.lib_meta = deep_merge(@, Decode(content[ino])),
                                    !.i = @ + 1]
              /\ files' = [files EXCEPT ![red.todo[red.i]] = NoFile]
  /\ UNCHANGED <<osname, hasCtypes, content, bld, hold, mrg, cod>>

\* lines 45-56: one pass of the load loop
RedLoad ==
  /\ red.pc = "load"
  /\ red.i <= Len(red.todo)
  /\ LET ino == files[red.todo[red.i]]
     IN  IF ino = NoFile \/ ~Decodable(content[ino])
         THEN RedFail("load", DecodeError)
         ELSE IF IsErr(deep_merge(red.lib_meta, Decode(content[ino])))
         THEN RedFail("load", MergeTypeError)
         ELSE red' = [red EXCEPT !.lib_meta = deep_merge(@, Decode(content[ino])),
                                 !.i = @ + 1]
  /\ UNCHANGED <<osname, hasCtypes, files, content, bld, hold, mrg, cod>>

\* line 62: open(output_lib_path, 'wb') creates the final library or
\* truncates the one that is there
RedOpen ==
  /\ red.pc = "load"
  /\ red.i > Len(red.todo)
  /\ LET ino == IF files[Dst] = NoFile THEN "red" ELSE files[Dst]
     IN  /\ files' = [files EXCEPT ![Dst] = ino]
         /\ content' = [content EXCEPT ![ino] = <<>>]
         /\ red' = [red EXCEPT !.pc = "writing", !.whnd = ino, !.woff = 0]
  /\ UNCHANGED <<osname, hasCtypes, bld, hold, mrg, cod>>

\* line 63: one write of the serializer's output reaches the file, or the
\* write fails (the disk is full) and the exception is re-raised
RedWrite ==
  /\ red.pc = "writing"
  /\ red.woff < Len(Encode(red.lib_meta))
  /\ \E full \in BOOLEAN :
       IF full
       THEN /\ RedFail("write", OSError2(28, "No space left on device"))
            /\ content' = content
       ELSE LET k == red.woff + 1
            IN  /\ content' = [content EXCEPT ![red.whnd] =
                                 WriteAt(@, k, Encode(red.lib_meta)[k])]
                /\ red' = [red EXCEPT !.woff = k]
  /\ UNCHANGED <<osname, hasCtypes, files, bld, hold, mrg, cod>>

\* the end of the with block of line 62
RedClose ==
  /\ red.pc = "writing"
  /\ red.woff = Len(Encode(red.lib_meta))
  /\ red' = [red EXCEPT !.pc = IF Len(red.todo) = 0 THEN "done" ELSE "cleanup",
                        !.whnd = NoFile, !.i = 1]
  /\ UNCHANGED <<osname, hasCtypes, files, content, bld, hold, mrg, cod>>

\* lines 71-77: one pass of the cleanup loop; os.remove may fail
RedRemove ==
  /\ red.pc = "cleanup"
  /\ red.i <= Len(red.todo)
  /\ \E ok \in BOOLEAN :
       IF ok /\ files[red.todo[red.i]] # NoFile
       THEN /\ files' = [files EXCEPT ![red.todo[red.i]] = NoFile]
            /\ red' = [red EXCEPT !.i = @ + 1,
                                  !.pc = IF red.i = Len(red.todo) THEN "done" ELSE "cleanup"]
       ELSE /\ files' = files
            /\ RedFail("cleanup", SharingViolation)
  /\ UNCHANGED <<osname, hasCtypes, content, bld, hold, mrg, cod>>

NextReduce ==
  \/ RedScan
  \/ RedLoad
  \/ RedOpen
  \/ RedWrite
  \/ RedClose
  \/ RedRemove

\* A reducer run over the intermediate files of an output directory.
SpecReduce == InitReduce /\ [][NextReduce]_vars

\* the intermediate files the run found that are no longer there
RedDeleted == {k \in 1..Len(red.todo) : files[red.todo[k]] = NoFile}

\* the reducer is started again after a failed run: a new process, with
\* an empty lib_meta and a scan of its own
RedRerun ==
  /\ red.pc = "failed"
  /\ red.run < MaxRuns
  /\ red' = [InitReducer(TRUE) EXCEPT
               !.run = red.run + 1,
               !.prev = red.lib_meta,
               !.prevAt = red.at,
               !.prevTodo = {red.todo[k] : k \in 1..Len(red.todo)},
               !.prevGone = {red.todo[k] : k \in RedDeleted}]
  /\ UNCHANGED <<osname, hasCtypes, files, content, bld, hold, mrg, cod>>

NextRerun ==
  \/ NextReduce
  \/ RedRerun

\* Reducer runs over an output directory, a failed one followed by another.
SpecRerun == InitReduce /\ [][NextRerun]_vars

\* An output directory that also holds a publisher's leftover temporary
\* file and an intermediate file of another encoding.
InitSweep ==
  /\ osname \in {"posix", "nt"}
  /\ hasCtypes = TRUE
  /\ bld = [p \in Builders |-> InitBuilder(FALSE, 1, "gfx90a")]
  /\ hold = [ino |-> NoFile, mode |-> "share"]
  /\ mrg = NoMerge
  /\ cod = NoCodec
  /\ red = InitReducer(TRUE)
  /\ \E withOld, withTmp, withYaml \in BOOLEAN, c1, c2 \in {<<>>, Encode(Frag1), Encode(LibB)} :
       /\ files = [f \in Paths |->
                     IF f = Dst THEN (IF withOld THEN "old" ELSE NoFile)
                     ELSE IF f = TmpName(1, 1) THEN (IF withTmp THEN "b1" ELSE NoFile)
                     ELSE IF f = YamlName(1) THEN (IF withYaml THEN "y1" ELSE NoFile)
                     ELSE IF f = IntName(1) THEN (IF c1 = <<>> THEN NoFile ELSE "i1")
                     ELSE IF f = IntName(2) THEN (IF c2 = <<>> THEN NoFile ELSE "i2")
                     ELSE NoFile]
       /\ content = [n \in Inodes |->
                     IF n = "old" /\ withOld THEN Encode(LibAB)
                     ELSE IF n = "b1" /\ withTmp THEN Encode(Frag1)
                     ELSE IF n = "y1" /\ withYaml THEN Encode(Frag2)
                     ELSE IF n = "i1" THEN c1
                     ELSE IF n = "i2" THEN c2
                     ELSE <<>>]

\* another process puts an intermediate file into the output directory
\* after the reducer's scan (what is there before it is chosen by Init),
\* at a free name or in the place of the file that has the name
IntAppears ==
  /\ red.pc # "scan"
  /\ \E f \in IntPaths, l \in {Frag1, LibB} :
       /\ files[f] # LateInode(f)
       /\ files' = [files EXCEPT ![f] = LateInode(f)]
       /\ content' = [content EXCEPT ![LateInode(f)] = Encode(l)]
  /\ UNCHANGED <<osname, hasCtypes, bld, hold, red, mrg, cod>>

NextSweep ==
  \/ NextReduce
  \/ IntAppears

\* A reducer run over a directory that holds other files and changes
\* while the run goes on.
SpecSweep == InitSweep /\ [][NextSweep]_vars

\* ------------------------------------------------- deep_merge on its own
\* list values for a bucket
LeafLists == {<<>>, <<Rec("r1")>>, <<Rec("r2")>>, <<Rec("r1"), Rec("r3")>>}
\* nested mappings deep_merge is applied to
MergeArgs ==
  {Frag1, Frag2, LibB, LibAB, EmptyDict}
  \cup {(a :> Bucket(o, "f16", s)) : a \in Archs, o \in {"gemm", "trsm"}, s \in LeafLists}
  \cup {("gfx90a" :> v) : v \in {EmptyDict, List(<<Rec("r1")>>), Scalar("v1"), Scalar("v2"),
                                  ("gemm" :> Scalar("v1")), ("gemm" :> EmptyDict)}}

InitMerge ==
  /\ osname = "posix"
  /\ hasCtypes = TRUE
  /\ bld = [p \in Builders |-> InitBuilder(FALSE, 1, "gfx90a")]
  /\ hold = [ino |-> NoFile, mode |-> "share"]
  /\ red = InitReducer(FALSE)
  /\ files = [f \in Paths |-> NoFile]
  /\ content = [n \in Inodes |-> <<>>]
  /\ \E t, u \in MergeArgs : mrg = [NoMerge EXCEPT !.target = t, !.source = u]
  /\ cod = NoCodec

\* deep_merge(target, source) is called and returns
DeepMergeCall ==
  /\ ~mrg.done
  /\ mrg' = [mrg EXCEPT !.result = deep_merge(mrg.target, mrg.source), !.done = TRUE]
  /\ UNCHANGED <<osname, hasCtypes, files, content, bld, hold, red, cod>>

NextMerge == DeepMergeCall

SpecMerge == InitMerge /\ [][NextMerge]_vars

\* ------------------------------------------- the serializers on their own
\* indexes handed to the serializers: empty, with empty leaf lists, as read
\* from a library, as the loader built them, and merged
CodecObjs ==
  {Plain(v) : v \in MergeArgs}
  \cup {FreshObj(LoadAll(fs, "posix", CoArg).index) :
          fs \in UNION {Perms(Glob(s, a)) : s \in {"ops", "empty"}, a \in Archs}}
  \cup {MergedObj(org, LoadAll(fs, "posix", CoArg).index) :
          org \in OldLibs,
          fs \in UNION {Perms(Glob(s, a)) : s \in {"ops", "empty"}, a \in Archs}}

InitCodec ==
  /\ osname = "posix"
  /\ hasCtypes = TRUE
  /\ bld = [p \in Builders |-> InitBuilder(FALSE, 1, "gfx90a")]
  /\ hold = [ino |-> NoFile, mode |-> "share"]
  /\ red = InitReducer(FALSE)
  /\ mrg = NoMerge
  /\ files = [f \in Paths |-> NoFile]
  /\ content = [n \in Inodes |-> <<>>]
  /\ \E f \in {"dat", "yaml", "json"}, a \in {"v5", "v6"}, o \in CodecObjs :
       cod = [NoCodec EXCEPT !.pc = "start", !.fmt = f, !.api = a, !.obj = o]

\* _dump_to: the index is serialized
CodecDump ==
  /\ cod.pc = "start"
  /\ cod' = [cod EXCEPT !.pc = "dumped", !.doc = Dump(cod.fmt, cod.obj)]
  /\ UNCHANGED <<osname, hasCtypes, files, content, bld, hold, red, mrg>>

\* _retry_read: the file is loaded back
CodecLoad ==
  /\ cod.pc = "dumped"
  /\ cod' = [cod EXCEPT !.pc = "loaded", !.out = Load(cod.fmt, cod.api, cod.doc)]
  /\ UNCHANGED <<osname, hasCtypes, files, content, bld, hold, red, mrg>>

NextCodec ==
  \/ CodecDump
  \/ CodecLoad

SpecCodec == InitCodec /\ [][NextCodec]_vars

\* ------------------------------------------------------------- properties
\* what a reader that opens the destination now would find
DstView ==
  [exists |-> files[Dst] # NoFile,
   data |-> IF files[Dst] # NoFile THEN content[files[Dst]] ELSE <<>>]

\* the temporary file of p has been written and closed
Serialized(p) ==
  \/ bld[p].pc \in {"replace", "done"}
  \/ bld[p].pc \in {"failed", "killed"} /\ bld[p].at = "replace"

\* C1: at every instant the destination is absent, or holds a previous
\* complete library, or a complete library some builder fully serialized;
\* never an empty, truncated or partially written file.
C1_DestinationAlwaysComplete ==
  files[Dst] # NoFile =>
    \/ \E l \in OldLibs : content[files[Dst]] = Encode(l)
    \/ \E p \in Builders : Serialized(p) /\ content[files[Dst]] = Encode(bld[p].lib_meta)

\* C3: a builder terminated after its temporary file was written and before
\* the replace succeeded has left the destination as it was: every step that
\* does not complete the builder's replace leaves what a reader finds at the
\* destination unchanged, so the temporary file's content was never visible.
C3_KilledLeavesDestination ==
  [][(bld'["b1"].pc = "done" => bld["b1"].pc = "done") => DstView' = DstView]_vars

\* the builder was terminated between the close of its complete temporary
\* file and the replace, and the file is still beside the destination
C3_Witness ==
  /\ bld["b1"].pc = "killed"
  /\ bld["b1"].at = "replace"
  /\ files[TmpName(bld["b1"].pid, bld["b1"].ms)] = "b1"
  /\ content["b1"] = Encode(bld["b1"].lib_meta)
  /\ files[Dst] = "old"
  /\ content["b1"] # content["old"]

Merged(p) == bld[p].org # <<>> /\ bld[p].pc \in {"dump", "writing", "replace", "done"}

\* C5: the index the builder publishes after reading an existing library E
\* has the keys of E and of the fresh index N; an architecture of N has
\* exactly N's value, any other architecture keeps E's value.
C5_ShallowMergeOverride ==
  \A p \in Builders :
    Merged(p) =>
      LET E == bld[p].org[1]
          N == bld[p].fresh
          M == bld[p].lib_meta
      IN  /\ DOMAIN M = DOMAIN E \cup DOMAIN N
          /\ \A k \in DOMAIN N : M[k] = N[k]
          /\ \A k \in DOMAIN E \ DOMAIN N : M[k] = E[k]

\* the existing library had another architecture and an operation under the
\* builder's architecture that the fresh index lacks
C5_Witness ==
  \E p \in Builders :
    /\ Merged(p)
    /\ bld[p].org[1] = LibAB
    /\ DOMAIN bld[p].fresh = {"gfx90a"}
    /\ "trsm" \notin DOMAIN bld[p].lib_meta["gfx90a"]
    /\ bld[p].lib_meta["gfx942"] = LibB["gfx942"]
    /\ bld[p].pc = "done"

\* C8: on Windows, a replace through MoveFileExW that fails with a sharing
\* violation (Win32 error 5, 32 or 33) is retried: the publish fails for
\* that reason only when all the attempts of the loop are used up.
C8_SharingViolationRetried ==
  \A p \in Builders :
    (/\ osname = "nt" /\ hasCtypes
     /\ bld[p].pc = "failed" /\ bld[p].at = "replace"
     /\ bld[p].win32 \in {5, 32, 33})
    => bld[p].att = ReplaceTries

\* C9: a publisher whose replace keeps meeting a sharing violation stops
\* within the attempt bound, with the persistent-contention error and no
\* other, and without having replaced the destination.
C9_PersistentContentionError ==
  \A p \in Builders :
    /\ bld[p].att <= ReplaceTries
    /\ (/\ osname = "nt"
        /\ bld[p].pc = "failed" /\ bld[p].at = "replace"
        /\ bld[p].win32 \in {5, 32, 33})
       => /\ bld[p].err = CouldNotReplace
          /\ files[Dst] # p

\* C10: on Windows a read that is refused as busy every time is attempted
\* at most ReadTries times and then raises the persistent-contention error;
\* the run stops there: no temporary file, no replace, and a builder that
\* met a busy destination never goes on to publish without having read it.
C10_ReadContentionAborts ==
  \A p \in Builders :
    /\ bld[p].ratt <= ReadTries
    /\ bld[p].ratt = ReadTries =>
         /\ bld[p].pc = "failed" /\ bld[p].err = CouldNotRead
         /\ bld[p].ms = 0
         /\ files[Dst] = "old"
    /\ (bld[p].pc = "failed" /\ bld[p].err = CouldNotRead) => bld[p].ratt = ReadTries
    /\ (osname = "nt" /\ bld[p].pc = "failed" /\ bld[p].at = "read")
         => bld[p].err # SharingViolation
    /\ (bld[p].ratt > 0 /\ bld[p].pc \in {"dump", "writing", "replace", "done"})
         => bld[p].org # <<>>

\* every one of the ReadTries attempts was refused and the builder gave up
C10_Witness ==
  /\ osname = "nt"
  /\ bld["b1"].pc = "failed"
  /\ bld["b1"].err = CouldNotRead
  /\ bld["b1"].ratt = ReadTries
  /\ hold.mode = "excl" /\ hold.ino = files[Dst]

\* C2: the reducer publishes the way the Atomic Publisher does: it never
\* has the destination's own file open for writing, and what a reader finds
\* at the destination is at every instant a complete library.
C2_ReducerPublishesAtomically ==
  /\ red.whnd = NoFile \/ red.whnd # files[Dst]
  /\ files[Dst] # NoFile =>
       \/ content[files[Dst]] = Encode(LibAB)
       \/ content[files[Dst]] = Encode(red.lib_meta)

\* C7: an intermediate file is deleted only after the final library has
\* been written completely and without error; a run that fails while
\* loading a fragment or writing the library leaves every intermediate file
\* it found in place.
C7_DeleteOnlyAfterWrite ==
  /\ RedDeleted # {} =>
       /\ red.pc \in {"cleanup", "done"} \/ (red.pc = "failed" /\ red.at = "cleanup")
       /\ files[Dst] # NoFile
       /\ content[files[Dst]] = Encode(red.lib_meta)
  /\ (red.pc = "failed" /\ red.at \in {"load", "write"}) => RedDeleted = {}

\* the write of the final library failed midway with two fragments merged,
\* and both intermediate files are still there
C7_Witness ==
  /\ red.pc = "failed" /\ red.at = "write"
  /\ Len(red.todo) = 2
  /\ red.woff >= 1
  /\ \A f \in IntPaths : files[f] # NoFile

\* the list deep_merge's result has at (a, o, t)
Leaf(d, a, o, t) == d[a][o][t].items
HasLeaf(d, a, o, t) ==
  a \in DOMAIN d /\ o \in DOMAIN d[a] /\ t \in DOMAIN d[a][o] /\ IsList(d[a][o][t])

\* C6: where target and source both have a list at the same (architecture,
\* operation, datatype), deep_merge's result has target's records followed
\* by source's records there.
C6_DeepMergeConcatenates ==
  mrg.done =>
    \A a \in Archs, o \in {"gemm", "trsm"}, t \in {"f16", "f32"} :
      (HasLeaf(mrg.target, a, o, t) /\ HasLeaf(mrg.source, a, o, t)) =>
         ~IsErr(mrg.result) /\
         Leaf(mrg.result, a, o, t) = Leaf(mrg.target, a, o, t) \o Leaf(mrg.source, a, o, t)

\* the builder's pattern matches a document without arch, op or io_type
HasMalformed(p) ==
  \E f \in Folder(bld[p].src) :
    /\ f.name[2] = bld[p].arch
    /\ \E k \in {"arch", "op", "io_type"} : k \notin DOMAIN f.meta

\* C11: a builder whose pattern matches a document that lacks arch, op or
\* io_type never gets past the loader: the run ends there with an error,
\* no temporary file is ever created and no step of the builder changes
\* what is at the destination.
C11_MalformedDocumentFailsRun ==
  /\ [](\A p \in Builders :
          HasMalformed(p) =>
            /\ bld[p].pc \in {"args", "load", "failed", "killed"}
            /\ bld[p].pc \in {"failed", "killed"} => bld[p].at \in {"args", "load"}
            /\ (bld[p].pc = "failed" /\ bld[p].at = "load") => bld[p].err = KeyError
            /\ bld[p].ms = 0 /\ bld[p].whnd = NoFile
            /\ \A f \in Paths \ {Dst} : files[f] = NoFile)
  /\ [][(HasMalformed("b1") /\ bld' # bld) => DstView' = DstView]_vars

\* a run over a well-formed and a malformed document has failed in the
\* loader, beside a previous library that is still in place
C11_Witness ==
  /\ HasMalformed("b1")
  /\ Cardinality(Glob(bld["b1"].src, bld["b1"].arch)) = 2
  /\ bld["b1"].pc = "failed" /\ bld["b1"].at = "load"
  /\ bld["b1"].err = KeyError
  /\ files[Dst] = "old" /\ content["old"] = Encode(LibAB)

\* the builder's loader loop has completed
Loaded(p) ==
  \/ bld[p].pc \in {"exists", "read", "reading", "dump", "writing", "replace", "done"}
  \/ bld[p].pc \in {"failed", "killed"} /\ bld[p].at \notin {"args", "load"}

\* the stems of the file names, in sorted order
Stems == <<"add", "cut", "ext", "mul", "old">>
Rank(f) == CHOOSE i \in 1..Len(Stems) : Stems[i] = f.name[1]
\* the files of S in sorted file-name order
Sorted(S) == CHOOSE s \in Perms(S) : \A i, j \in 1..Len(s) : i < j => Rank(s[i]) < Rank(s[j])

\* C12: the index the loader leaves is the one that loading the matched
\* documents in sorted file-name order gives, so the order of the records in
\* every bucket is the same in every run.
C12_SortedFileOrder ==
  \A p \in Builders :
    Loaded(p) =>
      bld[p].fresh = LoadAll(Sorted(Glob(bld[p].src, bld[p].arch)), osname, bld[p].co).index

\* the records of an index
Records(idx) ==
  {idx[a][o][t].items[i] :
     <<a, o, t, i>> \in {x \in (DOMAIN idx) \X {"gemm", "trsm"} \X {"f16", "f32"} \X (1..3) :
                            /\ x[2] \in DOMAIN idx[x[1]]
                            /\ x[3] \in DOMAIN idx[x[1]][x[2]]
                            /\ x[4] <= Len(idx[x[1]][x[2]][x[3]].items)}}

\* C13: every record of the freshly loaded index has a co_path that is the
\* tail of the --co path after its last directory separator (and drive): it
\* holds no separator and no drive, whatever form the path was given in and
\* whatever co_path the document carried.
C13_CoPathIsBasename ==
  \A p \in Builders :
    \A r \in Records(bld[p].fresh) :
      LET cp == r["co_path"]
          co == bld[p].co
          n  == Len(co) - Len(cp)
      IN  /\ n >= 0
          /\ SubSeq(co, n + 1, Len(co)) = cp
          /\ \A i \in 1..Len(cp) : cp[i] \notin Seps(osname)
          /\ osname = "nt" => \A i \in 1..Len(cp) : cp[i] # "C:"
          /\ n = 0 \/ co[n] \in Seps(osname) \/ (osname = "nt" /\ n = 1 /\ co[1] = "C:")

\* a document that carried its own co_path was loaded under a --co path
\* with directories, and its record has the base name of that path
C13_Witness ==
  /\ Loaded("b1")
  /\ bld["b1"].src = "mixed" /\ bld["b1"].arch = "gfx942"
  /\ Len(bld["b1"].co) > 1
  /\ \E r \in Records(bld["b1"].fresh) :
       r["kernel"] = "k5" /\ r["co_path"] = <<"extop_gfx.co">>

\* C14: the index the loader produces for target architecture A has no
\* top-level key other than A.
C14_OnlyTargetArchitecture ==
  \A p \in Builders : DOMAIN bld[p].fresh \subseteq {bld[p].arch}

\* C15: in each of the three encodings, loading back what was dumped
\* succeeds and yields an index equal to the one dumped: for the empty
\* index, for indexes with empty leaf lists, and for the object the builder
\* hands to the publisher.
C15_RoundTrip ==
  cod.pc = "loaded" => cod.out.ok /\ cod.out.obj.val = cod.obj.val

\* q ran again over p's inputs after p had published: it read p's result
RanAgain(p, q) ==
  /\ p # q
  /\ bld[p].pc = "done" /\ bld[q].pc = "done"
  /\ bld[p].arch = bld[q].arch /\ bld[p].src = bld[q].src /\ bld[p].co = bld[q].co
  /\ bld[q].org = <<bld[p].lib_meta>>
  /\ files[Dst] = q

\* C16: a second run of the builder with unchanged inputs, against the
\* destination the first run published, leaves the decoded content of the
\* destination what the first run published.
C16_IdempotentPublish ==
  \A p, q \in Builders :
    RanAgain(p, q) =>
      /\ Decodable(content[files[Dst]])
      /\ Decode(content[files[Dst]]) = bld[p].lib_meta

\* <output>/hipblasltExtOpLibrary_<arch>.<fmt>
IntFor(a) == IF a = "gfx90a" THEN IntName(1) ELSE IntName(2)

\* C17: a builder run given the intermediate-output flag, once it has
\* ended on its own, has written its index to the intermediate file of its
\* architecture and has neither read nor replaced the final library.
C17_IntermediateOutputMode ==
  \A p \in Builders :
    (bld[p].extra /\ bld[p].pc \in {"done", "failed"}) =>
      /\ bld[p].pc = "done"
      /\ files[IntFor(bld[p].arch)] = p
      /\ content[p] = Encode(bld[p].fresh)
      /\ bld[p].org = <<>>
      /\ files[Dst] # p

\* the library that was at the destination before any run started
Before == IF Decodable(content["old"]) THEN Decode(content["old"]) ELSE EmptyDict

\* C18: once two builders for different architectures have both published
\* to the same destination, the destination holds the entries of both, and
\* every other architecture the destination had before is still there
\* unchanged.
C18_NoLostUpdate ==
  ((\A p \in Builders : bld[p].pc = "done") /\ bld["b1"].arch # bld["b2"].arch) =>
     /\ Decodable(content[files[Dst]])
     /\ LET D == Decode(content[files[Dst]])
        IN  /\ \A p \in Builders :
                 /\ bld[p].arch \in DOMAIN D
                 /\ D[bld[p].arch] = bld[p].fresh[bld[p].arch]
            /\ \A a \in DOMAIN Before \ {bld[p].arch : p \in Builders} :
                 a \in DOMAIN D /\ D[a] = Before[a]

\* deep_merge returned r for target t and source s and r follows the rules:
\* t's own keys kept, s's own keys added, a shared key with a mapping on
\* both sides merged key by key, and s's value taken where both sides have
\* a scalar
FollowsRules(t, s, r) ==
  /\ ~IsErr(r)
  /\ DOMAIN r = DOMAIN t \cup DOMAIN s
  /\ \A k \in DOMAIN t \ DOMAIN s : r[k] = t[k]
  /\ \A k \in DOMAIN s \ DOMAIN t : r[k] = s[k]
  /\ \A k \in DOMAIN s \cap DOMAIN t :
       /\ (IsDict(t[k]) /\ IsDict(s[k])) =>
             /\ IsDict(r[k])
             /\ DOMAIN r[k] = DOMAIN t[k] \cup DOMAIN s[k]
             /\ \A j \in DOMAIN t[k] \ DOMAIN s[k] : r[k][j] = t[k][j]
             /\ \A j \in DOMAIN s[k] \ DOMAIN t[k] : r[k][j] = s[k][j]
       /\ (~IsDict(t[k]) /\ ~IsList(t[k]) /\ ~IsDict(s[k]) /\ ~IsList(s[k])) => r[k] = s[k]

\* C19: for every pair of nested mappings, also one where only source's
\* value at a shared key is a mapping, deep_merge returns a result that
\* follows its rules.
C19_DeepMergeRules ==
  mrg.done => FollowsRules(mrg.target, mrg.source, mrg.result)

\* C20: on a platform other than Windows no read attempt is ever repeated,
\* and a read that fails ends the run at once with the error the attempt
\* raised, EACCES and EBUSY included, not with the error of a used-up loop.
C20_PosixReadNotRetried ==
  \A p \in Builders :
    osname # "nt" =>
      /\ bld[p].ratt = 0
      /\ (bld[p].pc = "failed" /\ bld[p].at = "read") =>
            /\ bld[p].err \in {OSError2(bld[p].deny, "denied"), NoEntry, DecodeError}
            /\ bld[p].ms = 0
      /\ (bld[p].deny # 0 /\ bld[p].pc \in {"reading", "dump", "writing", "replace", "done"})
            => bld[p].org = <<>> /\ bld[p].pc # "reading"

\* on POSIX a run was refused the library with EBUSY and failed at once
C20_Witness ==
  /\ osname = "posix"
  /\ bld["b1"].pc = "failed" /\ bld["b1"].at = "read"
  /\ bld["b1"].err = OSError2(EBUSY, "denied")
  /\ bld["b1"].ratt = 0

\* C21: on Windows only a busy file is retried.  A read attempt is counted
\* as failed-and-retried only when the open was refused (here: the library
\* is denied to the run); a read that fails for another reason, a missing
\* file or an undecodable content, ends the run with that very error and
\* without a retry having been made for it.
C21_OnlyBusyRetried ==
  \A p \in Builders :
    osname = "nt" =>
      /\ bld[p].ratt > 0 => bld[p].deny # 0
      /\ (bld[p].pc = "failed" /\ bld[p].at = "read" /\ bld[p].deny = 0) =>
            /\ bld[p].err \in {FileNotFound, DecodeError}
            /\ bld[p].ratt = 0
            /\ bld[p].ms = 0
      /\ (bld[p].pc = "failed" /\ bld[p].err = CouldNotRead) => bld[p].ratt = ReadTries

\* on Windows the library vanished between the exists check and the read,
\* and the run failed with the missing-file error on its first attempt
C21_Witness ==
  /\ osname = "nt"
  /\ bld["b1"].pc = "failed" /\ bld["b1"].at = "read"
  /\ bld["b1"].err = FileNotFound
  /\ bld["b1"].ratt = 0
  /\ files[Dst] = NoFile

\* the run ended because the library could not be decoded or decoded to
\* something that is no mapping
BadLibrary(p) ==
  /\ bld[p].pc = "failed"
  /\ bld[p].at \in {"read", "merge"}
  /\ bld[p].err \in {DecodeError, NotAMapping}

\* C22: a builder that finds an undecodable library, or one that decodes to
\* no mapping, ends with an error: it has made no retry for it, created no
\* temporary file and not replaced the destination; and a builder goes on
\* to publish a merge only over a library that decoded to a mapping.
C22_MalformedLibraryAborts ==
  \A p \in Builders :
    /\ BadLibrary(p) =>
         /\ bld[p].ms = 0
         /\ \A f \in Paths \ {Dst} : files[f] = NoFile
         /\ files[Dst] # p
         /\ bld[p].org = <<>>
         /\ bld[p].deny = 0 => bld[p].ratt = 0
    /\ (bld[p].org # <<>> \/ bld[p].ms # 0) =>
         \/ bld[p].org = <<>> /\ bld[p].lib_meta = bld[p].fresh
         \/ bld[p].org # <<>> /\ content["old"] = Encode(bld[p].org[1])

\* the library decoded to a list and the run ended at the merge, the
\* library still in place
C22_Witness ==
  /\ BadLibrary("b1")
  /\ bld["b1"].err = NotAMapping
  /\ content["old"] = TopList
  /\ files[Dst] = "old"

\* C23: a publisher whose replace step has failed has removed its
\* temporary file: none of its name is left beside the destination.
C23_FailedReplaceRemovesTemp ==
  \A p \in Builders :
    (bld[p].pc = "failed" /\ bld[p].at = "replace") =>
       files[TmpName(bld[p].pid, bld[p].ms)] = NoFile

\* the publisher has created its temporary file and not yet ended
Publishing(p) == bld[p].pc \in {"writing", "replace"}

\* C24: two publishers at work on the same destination never have the same
\* temporary path, and a publisher writes through a handle on a file it
\* created itself, never on another publisher's.
C24_TemporaryPathsUnique ==
  /\ \A p, q \in Builders :
       (p # q /\ Publishing(p) /\ Publishing(q)) =>
          TmpName(bld[p].pid, bld[p].ms) # TmpName(bld[q].pid, bld[q].ms)
  /\ \A p \in Builders : bld[p].whnd \in {NoFile, p}

\* C25: the sleeps of a publisher's replace loop, jitter aside, add up to
\* less than ten seconds however many of the attempts fail.
C25_ReplaceBudgetSeconds ==
  \A p \in Builders : bld[p].slept < 10000

\* the reader has just slept after a failed attempt
ReadSlept(p) == bld[p].ratt > 0 /\ bld[p].rsleep > 0

AtReplace(p) ==
  \/ bld[p].pc \in {"replace", "done"}
  \/ bld[p].pc \in {"failed", "killed"} /\ bld[p].at = "replace"

\* C27: a publisher is at its replace step only with its temporary file
\* completely written and closed and the flush and sync requested, whether
\* or not the sync succeeded; a publisher whose serialization failed has
\* made no replace attempt and has left the destination alone.
C27_ReplaceAfterCompleteDump ==
  \A p \in Builders :
    /\ AtReplace(p) =>
         /\ content[p] = Encode(bld[p].lib_meta)
         /\ bld[p].whnd = NoFile
         /\ bld[p].sync \in {"ok", "failed"}
         /\ bld[p].disk = "nosync" => bld[p].sync = "failed"
    /\ (bld[p].pc = "failed" /\ bld[p].at = "dump") =>
         /\ bld[p].err = NoSpace
         /\ bld[p].sync = "none"
         /\ bld[p].att = 0
         /\ files[Dst] # p
         /\ files[Dst] = "old" => content["old"] = Encode(LibAB)
    /\ bld[p].disk = "nosync" => ~(bld[p].pc = "failed" /\ bld[p].at = "dump")

\* a publish whose sync request failed has replaced the destination
C27_Witness ==
  /\ bld["b1"].pc = "done"
  /\ bld["b1"].sync = "failed"
  /\ files[Dst] = "b1"
  /\ content["b1"] = Encode(bld["b1"].lib_meta)

\* C28: on a platform other than Windows no replace attempt is ever
\* repeated and the publisher never sleeps; a rename that fails ends the
\* publish with the error it raised, the destination not replaced.
C28_PosixReplaceNotRetried ==
  \A p \in Builders :
    osname # "nt" =>
      /\ bld[p].att = 0 /\ bld[p].slept = 0
      /\ bld[p].err # CouldNotReplace
      /\ (bld[p].pc = "failed" /\ bld[p].at = "replace") =>
            /\ bld[p].err = OSError2(EBUSY, "rename")
            /\ files[Dst] # p
            /\ files[Dst] = "old" => content["old"] = Encode(LibAB)
            /\ files[TmpName(bld[p].pid, bld[p].ms)] = p
      /\ (bld[p].disk = "busy" /\ bld[p].pc \notin {"load", "exists", "read", "reading",
                                                   "dump", "writing", "replace", "killed"})
            => bld[p].pc = "failed"

\* on POSIX the rename was refused with EBUSY and the publish failed at its
\* first attempt, the previous library still in place
C28_Witness ==
  /\ osname = "posix"
  /\ bld["b1"].pc = "failed" /\ bld["b1"].at = "replace"
  /\ bld["b1"].err.errno = EBUSY
  /\ bld["b1"].att = 0
  /\ files[Dst] = "old"

\* the places (architecture, operation, datatype, position) of an index
Places(idx) ==
  {x \in (DOMAIN idx) \X {"gemm", "trsm"} \X {"f16", "f32"} \X (1..3) :
     /\ x[2] \in DOMAIN idx[x[1]]
     /\ x[3] \in DOMAIN idx[x[1]][x[2]]
     /\ x[4] <= Len(idx[x[1]][x[2]][x[3]].items)}
At(idx, x) == idx[x[1]][x[2]][x[3]].items[x[4]]
\* the places where the record made from document m is
PlacesOf(idx, m) == {x \in Places(idx) : At(idx, x)["kernel"] = m["kernel"]}

\* C29: the index the loader leaves after n documents has n records: each
\* document's record is at exactly one place, in the bucket its own arch, op
\* and io_type name, without arch and op, with io_type and its other fields
\* as they were, and behind the records of the documents processed before.
C29_OneRecordPerDocument ==
  \A p \in Builders :
    Loaded(p) =>
      LET idx == bld[p].fresh
          docs == bld[p].globbed
      IN  /\ Cardinality(Places(idx)) = Len(docs)
          /\ \A a \in DOMAIN idx : \A o \in DOMAIN idx[a] : \A t \in DOMAIN idx[a][o] :
               o \in {"gemm", "trsm"} /\ t \in {"f16", "f32"} /\ Len(idx[a][o][t].items) <= 3
          /\ \A i \in 1..Len(docs) :
               LET m == docs[i].meta
               IN  /\ Cardinality(PlacesOf(idx, m)) = 1
                   /\ \A x \in PlacesOf(idx, m) :
                        /\ x[1] = m["arch"] /\ x[2] = m["op"] /\ x[3] = m["io_type"]
                        /\ DOMAIN At(idx, x) = (DOMAIN m \ {"arch", "op"}) \cup {"co_path"}
                        /\ \A k \in DOMAIN m \ {"arch", "op", "co_path"} : At(idx, x)[k] = m[k]
          /\ \A i, j \in 1..Len(docs) :
               i < j =>
                 \A x \in PlacesOf(idx, docs[i].meta), y \in PlacesOf(idx, docs[j].meta) :
                   (x[1] = y[1] /\ x[2] = y[2] /\ x[3] = y[3]) => x[4] < y[4]

\* three documents were loaded, two of them into one bucket
C29_Witness ==
  /\ Loaded("b1")
  /\ Len(bld["b1"].globbed) = 3
  /\ bld["b1"].globbed[1].meta["kernel"] = "k2"
  /\ bld["b1"].globbed[3].meta["kernel"] = "k1"
  /\ Len(bld["b1"].fresh["gfx90a"]["gemm"]["f16"].items) = 2

\* the fragment the run found in intermediate file f
Fragment(f) == Decode(content[IntInode(f)])
\* the run found fragments with pairwise disjoint architectures
DisjointFragments ==
  /\ \A k \in 1..Len(red.todo) : Decodable(content[IntInode(red.todo[k])])
  /\ \A j, k \in 1..Len(red.todo) :
       j # k => DOMAIN Fragment(red.todo[j]) \cap DOMAIN Fragment(red.todo[k]) = {}

\* C30: over fragments with pairwise disjoint architectures, the index the
\* reducer has merged and written maps each architecture to exactly its
\* fragment's content and has no other key, in whatever order the
\* fragments were loaded.
C30_DisjointMergeOrderFree ==
  (DisjointFragments /\ red.pc \in {"cleanup", "done"}) =>
     /\ DOMAIN red.lib_meta = UNION {DOMAIN Fragment(red.todo[k]) : k \in 1..Len(red.todo)}
     /\ \A k \in 1..Len(red.todo) :
          \A a \in DOMAIN Fragment(red.todo[k]) : red.lib_meta[a] = Fragment(red.todo[k])[a]
     /\ content[files[Dst]] = Encode(red.lib_meta)

\* two fragments of different architectures were merged, the second
\* intermediate file first
C30_Witness ==
  /\ red.pc = "done"
  /\ Len(red.todo) = 2
  /\ red.todo[1] = IntName(2)
  /\ DisjointFragments
  /\ DOMAIN red.lib_meta = Archs

\* the final library is written and closed in this run
RedWritten ==
  red.pc \in {"cleanup", "done"} \/ (red.pc = "failed" /\ red.at = "cleanup")

\* C31: when a run wrote the final library and failed in its cleanup with
\* some intermediate files already deleted and some not, the final library
\* the next run writes still has every architecture the failed run wrote,
\* with the content the failed run gave it.
C31_RerunKeepsFragments ==
  (/\ red.run > 1 /\ red.prevAt = "cleanup"
   /\ red.prevGone # {} /\ red.prevGone # red.prevTodo
   /\ RedWritten) =>
     /\ Decodable(content[files[Dst]])
     /\ \A a \in DOMAIN red.prev :
          /\ a \in DOMAIN Decode(content[files[Dst]])
          /\ Decode(content[files[Dst]])[a] = red.prev[a]

\* C32: a run that found no intermediate file and has finished leaves a
\* final library that was at the destination with the content it decoded
\* to before the run.
C32_EmptyScanKeepsLibrary ==
  (red.pc = "done" /\ Len(red.todo) = 0 /\ files[Dst] = "old") =>
     /\ Decodable(content[files[Dst]])
     /\ Decode(content[files[Dst]]) = LibAB

\* this step removes path f from the directory
Deletes(f) == files[f] # NoFile /\ files'[f] = NoFile

====
